---- MODULE Spec2Model ----
(***************************************************************************)
(* SplitBill (src/src/App.tsx): the session state held by the App          *)
(* component, the handlers that change it, and the two calculations        *)
(* calculatePersonTotals and calculateSettlements.                          *)
(*                                                                         *)
(* Money is a JavaScript number.  The model computes with exact rationals  *)
(* (a numerator and a positive denominator in lowest terms), so the        *)
(* rounding of IEEE doubles is not part of the model: an equality that     *)
(* the model finds exact holds in the program up to floating-point error.  *)
(***************************************************************************)
EXTENDS Integers, Sequences, FiniteSets, TLC

----------------------------------------------------------------------------
(* Rational numbers *)

RECURSIVE GCD(_, _)
GCD(a, b) == IF b = 0 THEN a ELSE GCD(b, a % b)

IAbs(i) == IF i < 0 THEN -i ELSE i

\* n/d in lowest terms with d > 0.  A division by zero does not fail in
\* JavaScript: x/0 is Infinity, -Infinity or NaN, kept here as 1/0, -1/0 and
\* 0/0.
Rat(n, d) ==
  IF d = 0 THEN [n |-> (IF n > 0 THEN 1 ELSE IF n < 0 THEN -1 ELSE 0), d |-> 0]
  ELSE LET g == GCD(IAbs(n), IAbs(d))
           s == IF d < 0 THEN -1 ELSE 1
       IN  [n |-> (s * n) \div g, d |-> (s * d) \div g]

R(i) == [n |-> i, d |-> 1]
Zero == R(0)

RAdd(x, y) ==
  IF x.d = 1 /\ y.d = 1 THEN [n |-> x.n + y.n, d |-> 1]
  ELSE Rat(x.n * y.d + y.n * x.d, x.d * y.d)
RNeg(x) == [n |-> -x.n, d |-> x.d]
RSub(x, y) == RAdd(x, RNeg(y))
RMul(x, y) ==
  IF x.d = 1 /\ y.d = 1 THEN [n |-> x.n * y.n, d |-> 1]
  ELSE Rat(x.n * y.n, x.d * y.d)
RDiv(x, y) ==
  IF y = [n |-> 1, d |-> 1] THEN x ELSE Rat(x.n * y.d, x.d * y.n)
RLt(x, y) == x.n * y.d < y.n * x.d
RLe(x, y) == x.n * y.d <= y.n * x.d
RAbs(x) == [n |-> IAbs(x.n), d |-> x.d]
\* A faulty variant of RMin: the first argument, whatever the second is.
RMinFirst(x, y) == x
\* A faulty variant of RMin: the larger of the two.
RMinLargest(x, y) == IF RLt(y, x) THEN x ELSE y
RMin(x, y) == IF RLt(y, x) THEN y ELSE x

RECURSIVE RSumTo(_, _)
RSumTo(f, k) == IF k = 0 THEN Zero ELSE RAdd(RSumTo(f, k - 1), f[k])
\* The sum of a sequence of rationals.
RSum(s) == RSumTo(s, Len(s))

\* The ids of a list of records with an id field.
Ids(list) == {list[i].id : i \in 1..Len(list)}

----------------------------------------------------------------------------
(* calculatePersonTotals *)

\* Two faulty variants of splitPrice, for testing the properties below: the
\* whole price for every assignee, and the price taken per unit.
splitPriceUndivided(item) == item.price
splitPricePerUnit(item) ==
  RDiv(RMul(item.price, R(item.qty)), R(Len(item.sharedBy)))

\* const splitPrice = item.price / item.sharedBy.length
splitPrice(item) == RDiv(item.price, R(Len(item.sharedBy)))

\* item.sharedBy.forEach(personId => { if (billPersonItemTotals[personId]
\* !== undefined) billPersonItemTotals[personId] += splitPrice })
RECURSIVE AddShares(_, _, _, _)
AddShares(totals, sharedBy, k, share) ==
  IF k > Len(sharedBy) THEN totals
  ELSE AddShares(
         IF sharedBy[k] \in DOMAIN totals
           THEN [totals EXCEPT ![sharedBy[k]] = RAdd(@, share)]
           ELSE totals,
         sharedBy, k + 1, share)

\* A faulty variant of ItemsLoop: the price of an item nobody shares is
\* added to the assigned subtotal as well.
RECURSIVE ItemsLoopCountingAll(_, _, _)
ItemsLoopCountingAll(acc, items, i) ==
  IF i > Len(items) THEN acc
  ELSE ItemsLoopCountingAll(
         [totals |-> IF Len(items[i].sharedBy) > 0
                       THEN AddShares(acc.totals, items[i].sharedBy, 1,
                                      splitPrice(items[i]))
                       ELSE acc.totals,
          assigned |-> RAdd(acc.assigned, items[i].price)],
         items, i + 1)

\* bill.items.forEach(item => { if (item.sharedBy.length > 0) { ... } })
\* acc = [totals: billPersonItemTotals, assigned: billAssignedSubtotal]
RECURSIVE ItemsLoop(_, _, _)
ItemsLoop(acc, items, i) ==
  IF i > Len(items) THEN acc
  ELSE ItemsLoop(
         IF Len(items[i].sharedBy) > 0
           THEN [totals |-> AddShares(acc.totals, items[i].sharedBy, 1,
                                      splitPrice(items[i])),
                 assigned |-> RAdd(acc.assigned, items[i].price)]
           ELSE acc,
         items, i + 1)

\* A faulty variant of BillAccumulators: every person starts at 1.
BillAccumulatorsFromOne(ppl, bill) ==
  ItemsLoop([totals |-> [p \in Ids(ppl) |-> R(1)], assigned |-> Zero],
            bill.items, 1)

\* The per-bill accumulators after the items loop: every person starts at 0.
BillAccumulators(ppl, bill) ==
  ItemsLoop([totals |-> [p \in Ids(ppl) |-> Zero], assigned |-> Zero],
            bill.items, 1)

billPersonItemTotals(ppl, bill) == BillAccumulators(ppl, bill).totals
billAssignedSubtotal(ppl, bill) == BillAccumulators(ppl, bill).assigned

\* A faulty variant of baseForProportion: no "|| 1".
baseForProportionOrZero(ppl, bill) ==
  LET assigned == BillAccumulators(ppl, bill).assigned
  IN  IF RLt(Zero, assigned) THEN assigned ELSE bill.subtotal

\* A faulty variant of baseForProportion: the stored subtotal, whatever is
\* assigned.
baseForProportionStored(ppl, bill) ==
  IF bill.subtotal = Zero THEN R(1) ELSE bill.subtotal

\* billAssignedSubtotal > 0 ? billAssignedSubtotal : (bill.subtotal || 1)
baseForProportion(ppl, bill) ==
  LET assigned == billAssignedSubtotal(ppl, bill)
  IN  IF RLt(Zero, assigned) THEN assigned
      ELSE IF bill.subtotal = Zero THEN R(1) ELSE bill.subtotal

\* A faulty variant of BillShares: the service share is left out of the
\* final total.
BillSharesWithoutService(ppl, bill, pid) ==
  LET itemTotal == billPersonItemTotals(ppl, bill)[pid]
      proportion == RDiv(itemTotal, baseForProportion(ppl, bill))
      taxShare == RMul(bill.tax, proportion)
      serviceShare == RMul(bill.serviceCharge, proportion)
  IN  [itemTotal |-> itemTotal, taxShare |-> taxShare,
       serviceShare |-> serviceShare,
       finalTotal |-> RAdd(itemTotal, taxShare)]

\* One person's additions from one bill.
BillShares(ppl, bill, pid) ==
  LET itemTotal == billPersonItemTotals(ppl, bill)[pid]
      proportion == RDiv(itemTotal, baseForProportion(ppl, bill))
      taxShare == RMul(bill.tax, proportion)
      serviceShare == RMul(bill.serviceCharge, proportion)
  IN  [itemTotal |-> itemTotal, taxShare |-> taxShare,
       serviceShare |-> serviceShare,
       finalTotal |-> RAdd(RAdd(itemTotal, taxShare), serviceShare)]

\* personTotals[pid] after the first b bills: bills.forEach(bill => { ...;
\* people.forEach(person => { personTotals[person.id].itemTotal +=
\* itemTotal; ... }) })
RECURSIVE BillsLoop(_, _, _, _)
BillsLoop(ppl, bls, b, pid) ==
  IF b = 0
    THEN [itemTotal |-> Zero, taxShare |-> Zero, serviceShare |-> Zero,
          finalTotal |-> Zero]
    ELSE LET stats == BillsLoop(ppl, bls, b - 1, pid)
             s == BillShares(ppl, bls[b], pid)
         IN  [itemTotal |-> RAdd(stats.itemTotal, s.itemTotal),
              taxShare |-> RAdd(stats.taxShare, s.taxShare),
              serviceShare |-> RAdd(stats.serviceShare, s.serviceShare),
              finalTotal |-> RAdd(stats.finalTotal, s.finalTotal)]

\* A faulty variant of amountPaidOf: every payment counts for every person.
amountPaidOfAnyone(pays, pid) ==
  RSum([k \in 1..Len(pays) |-> pays[k].amount])

\* payments.filter(p => p.personId === person.id).reduce((sum, p) => sum + p.amount, 0)
amountPaidOf(pays, pid) ==
  RSum([k \in 1..Len(pays) |->
          IF pays[k].personId = pid THEN pays[k].amount ELSE Zero])

calculatePersonTotals(ppl, bls, pays) ==
  [i \in 1..Len(ppl) |->
     LET stats == BillsLoop(ppl, bls, Len(bls), ppl[i].id)
         amountPaid == amountPaidOf(pays, ppl[i].id)
     IN  [id |-> ppl[i].id, name |-> ppl[i].name,
          itemTotal |-> stats.itemTotal, taxShare |-> stats.taxShare,
          serviceShare |-> stats.serviceShare,
          finalTotal |-> stats.finalTotal,
          amountPaid |-> amountPaid,
          balance |-> RSub(amountPaid, stats.finalTotal)]]

----------------------------------------------------------------------------
(* calculateSettlements *)

\* The 0.01 of "balance < -0.01", "balance > 0.01" and "balance < 0.01".
Cent == Rat(1, 100)

\* A faulty variant of debtorsOf: the debtors sorted by magnitude, largest
\* first.
debtorsOfLargestFirst(totals) ==
  LET IsDebtor(t) == RLt(t.balance, RNeg(Cent))
      sel == SelectSeq(totals, IsDebtor)
      n == Len(sel)
      order == CHOOSE f \in [1..n -> 1..n] :
                 /\ \A i, j \in 1..n : i # j => f[i] # f[j]
                 /\ \A i, j \in 1..n :
                      i < j => RLe(sel[f[i]].balance, sel[f[j]].balance)
  IN  [i \in 1..n |-> [sel[order[i]] EXCEPT !.balance = RAbs(@)]]

\* totals.filter(t => t.balance < -0.01).map(t => ({...t, balance: Math.abs(t.balance)}))
debtorsOf(totals) ==
  LET IsDebtor(t) == RLt(t.balance, RNeg(Cent))
      sel == SelectSeq(totals, IsDebtor)
  IN  [i \in 1..Len(sel) |-> [sel[i] EXCEPT !.balance = RAbs(@)]]

\* A faulty variant of creditorsOf: a balance of exactly 0.01 counts.
creditorsOfFromCent(totals) ==
  LET IsCreditor(t) == RLe(Cent, t.balance)
  IN  SelectSeq(totals, IsCreditor)

\* A faulty variant of creditorsOf: the sign of the balance is ignored, so a
\* debtor is a creditor as well.
creditorsOfEitherSign(totals) ==
  LET IsCreditor(t) == RLt(Cent, RAbs(t.balance))
      sel == SelectSeq(totals, IsCreditor)
  IN  [i \in 1..Len(sel) |-> [sel[i] EXCEPT !.balance = RAbs(@)]]

\* totals.filter(t => t.balance > 0.01).map(t => ({...t}))
creditorsOf(totals) ==
  LET IsCreditor(t) == RLt(Cent, t.balance)
  IN  SelectSeq(totals, IsCreditor)

\* The state of the loop: the two working copies, the cursors (1-based here,
\* 0-based in the source) and the result so far.
SettleStart(totals) ==
  [debtors |-> debtorsOf(totals), creditors |-> creditorsOf(totals),
   d |-> 1, c |-> 1, settlements |-> <<>>]

\* while (d < debtors.length && c < creditors.length)
SettleRunning(st) == st.d <= Len(st.debtors) /\ st.c <= Len(st.creditors)

\* A faulty variant of SettleStep: the creditor's test is the else-branch of
\* the debtor's.
SettleStepElseBranch(st) ==
  LET amount == RMin(st.debtors[st.d].balance, st.creditors[st.c].balance)
      dRest == RSub(st.debtors[st.d].balance, amount)
      cRest == RSub(st.creditors[st.c].balance, amount)
  IN  [debtors |-> [st.debtors EXCEPT ![st.d].balance = dRest],
       creditors |-> [st.creditors EXCEPT ![st.c].balance = cRest],
       d |-> IF RLt(dRest, Cent) THEN st.d + 1 ELSE st.d,
       c |-> IF ~RLt(dRest, Cent) /\ RLt(cRest, Cent)
               THEN st.c + 1 ELSE st.c,
       settlements |->
         Append(st.settlements,
                [from |-> st.debtors[st.d].name,
                 to |-> st.creditors[st.c].name,
                 amount |-> amount])]

\* A faulty variant of SettleStep: the cursors advance on a remainder below
\* zero.
SettleStepBelowZero(st) ==
  LET amount == RMin(st.debtors[st.d].balance, st.creditors[st.c].balance)
      dRest == RSub(st.debtors[st.d].balance, amount)
      cRest == RSub(st.creditors[st.c].balance, amount)
  IN  [debtors |-> [st.debtors EXCEPT ![st.d].balance = dRest],
       creditors |-> [st.creditors EXCEPT ![st.c].balance = cRest],
       d |-> IF RLt(dRest, Zero) THEN st.d + 1 ELSE st.d,
       c |-> IF RLt(cRest, Zero) THEN st.c + 1 ELSE st.c,
       settlements |->
         Append(st.settlements,
                [from |-> st.debtors[st.d].name,
                 to |-> st.creditors[st.c].name,
                 amount |-> amount])]

\* One iteration of the loop body.
SettleStep(st) ==
  LET amount == RMin(st.debtors[st.d].balance, st.creditors[st.c].balance)
      dRest == RSub(st.debtors[st.d].balance, amount)
      cRest == RSub(st.creditors[st.c].balance, amount)
  IN  [debtors |-> [st.debtors EXCEPT ![st.d].balance = dRest],
       creditors |-> [st.creditors EXCEPT ![st.c].balance = cRest],
       d |-> IF RLt(dRest, Cent) THEN st.d + 1 ELSE st.d,
       c |-> IF RLt(cRest, Cent) THEN st.c + 1 ELSE st.c,
       settlements |->
         Append(st.settlements,
                [from |-> st.debtors[st.d].name,
                 to |-> st.creditors[st.c].name,
                 amount |-> amount])]

RECURSIVE SettleRun(_)
SettleRun(st) == IF SettleRunning(st) THEN SettleRun(SettleStep(st)) ELSE st

calculateSettlements(totals) == SettleRun(SettleStart(totals)).settlements

\* renderSummary, the label under a person's total: 'Piutang' (is owed),
\* 'Hutang' (owes) or 'Lunas' (settled).
balanceLabel(t) ==
  IF RLt(Cent, t.balance) THEN "Piutang"
  ELSE IF RLt(t.balance, RNeg(Cent)) THEN "Hutang"
  ELSE "Lunas"

----------------------------------------------------------------------------
(* The session state of App and its handlers *)

\* Bounds of the exploration.
MaxBills == 2
MaxItems == 2
MaxPeople == 2
MaxPayments == 1
MaxEdits == 3

VARIABLES
  step,               \* useState<Step>
  bills,              \* useState<ReceiptData[]>; a bill's id is its position
  currentBillId,      \* 0 is null, otherwise the position of the current bill
  people,             \* useState<Person[]>
  payments,           \* useState<Payment[]>
  taxPercentage,      \* the number the input string parses to
  servicePercentage,
  isInitialized,
  pendingState,       \* the parsed snapshot waiting at RESTORE, or NoSnapshot
  store,              \* localStorage['splitbill_state'], or NoSnapshot
  upload,             \* the position of handleFileUpload / processReceipt
  edits,              \* how many editing events the session has seen
  pc,                 \* the position of a render of the summary
  totals,             \* const totals = calculatePersonTotals()
  settle,             \* the loop state of calculateSettlements(totals)
  first               \* what the render's first calculateSettlements(totals)
                      \* returned, or NotCalled

sessionVars == <<step, bills, currentBillId, people, payments, taxPercentage,
                 servicePercentage, isInitialized, pendingState, store,
                 upload, edits>>
calcVars == <<pc, totals, settle, first>>
vars == <<sessionVars, calcVars>>

NoSnapshot == [none |-> TRUE]
NoSettle == [debtors |-> <<>>, creditors |-> <<>>, d |-> 1, c |-> 1,
             settlements |-> <<>>]
NotCalled == [called |-> FALSE, settlements |-> <<>>]
Idle == [phase |-> "idle", peopleEmpty |-> FALSE]

\* What the user can type, and what the extraction service can answer.
Names == {"Ani"}
PriceSet == {R(30), R(-30)}
QtySet == {2}
PctSet == {R(10)}
AmountSet == {R(30)}
ReceiptSet ==
  { [items |-> <<[price |-> R(30), qty |-> 2], [price |-> R(-30), qty |-> 0]>>,
     subtotal |-> R(30), tax |-> R(6), serviceCharge |-> R(3),
     total |-> R(39)] }

\* generateId(): an id no person, item assignment or payment refers to.
UsedIds ==
  Ids(people)
    \cup {payments[k].personId : k \in 1..Len(payments)}
    \cup UNION {UNION {{b.items[i].sharedBy[j] : j \in 1..Len(b.items[i].sharedBy)}
                         : i \in 1..Len(b.items)}
                  : b \in {bills[k] : k \in 1..Len(bills)}}
generateId == CHOOSE n \in 1..(Cardinality(UsedIds) + 1) : n \notin UsedIds

\* JSON.stringify({bills, people, payments, step, currentBillId})
\* and what JSON.parse makes of it.  Every value written is a string, a
\* finite number (inputs pass through parseFloat(...) || 0, receipts come
\* out of JSON), null, an array or a plain object, which JSON.parse gives
\* back as written; null is the 0 of currentBillId.
Snapshot(bl, pp, py, st, cb) ==
  [bills |-> bl, people |-> pp, payments |-> py, step |-> st,
   currentBillId |-> cb]

\* A faulty variant of Persist: an effect whose dependency list lacks step.
PersistWithoutStep ==
  store' = IF isInitialized'
              /\ <<bills', people', payments', currentBillId', isInitialized'>>
                   # <<bills, people, payments, currentBillId, isInitialized>>
             THEN Snapshot(bills', people', payments', step', currentBillId')
             ELSE store

\* A faulty variant of Persist: the effect writes without testing
\* isInitialized.
PersistBeforeInitialized ==
  store' = Snapshot(bills', people', payments', step', currentBillId')

\* The persistence effect, run after the render that follows a handler.
Persist ==
  store' = IF isInitialized'
             THEN Snapshot(bills', people', payments', step', currentBillId')
             ELSE store

\* bills.map(b => b.id === currentBillId ? newBill : b)
MapCurrent(newBill) ==
  [k \in 1..Len(bills) |-> IF k = currentBillId THEN newBill ELSE bills[k]]

\* b.items.map(i => i.id === item.id ? newItem : i); an item's id is its
\* position
MapItem(b, i, newItem) ==
  [b EXCEPT !.items = [k \in 1..Len(b.items) |->
                         IF k = i THEN newItem ELSE b.items[k]]]

HasCurrent == currentBillId \in 1..Len(bills)

Init ==
  /\ step = "UPLOAD"
  /\ bills = <<>>
  /\ currentBillId = 0
  /\ people = <<>>
  /\ payments = <<>>
  /\ taxPercentage = Zero
  /\ servicePercentage = Zero
  /\ isInitialized = TRUE
  /\ pendingState = NoSnapshot
  /\ store = Snapshot(<<>>, <<>>, <<>>, "UPLOAD", 0)
  /\ upload = Idle
  /\ edits = 0
  /\ pc = "session"
  /\ totals = <<>>
  /\ settle = NoSettle
  /\ first = NotCalled

\* An editing event (a person, an item, a percentage or a payment changes)
\* counts against the bound; anything else leaves the count alone.
Edit == edits < MaxEdits /\ edits' = edits + 1
NoEdit == UNCHANGED edits

Goto(from, to) ==
  /\ step = from
  /\ step' = to
  /\ UNCHANGED <<bills, currentBillId, people, payments, taxPercentage,
                 servicePercentage, isInitialized, pendingState, upload,
                 calcVars>>
  /\ Persist
  /\ NoEdit

\* The bill a receipt or the manual entry appends, and what follows
\* (processReceipt lines 306-313, the manual button lines 589-594): the
\* people test reads the people of the render that created the handler.
AppendBill(newBill, peopleWasEmpty) ==
  /\ bills' = Append(bills, newBill)
  /\ currentBillId' = Len(bills) + 1
  /\ people' = IF peopleWasEmpty
                 THEN <<[id |-> generateId, name |-> "Saya"]>>
                 ELSE people
  /\ step' = "BILL_NAME"

\* "Input Manual" on the upload screen.
InputManual ==
  /\ step = "UPLOAD"
  /\ Len(bills) + (IF upload.phase = "idle" THEN 0 ELSE 1) < MaxBills
  /\ AppendBill([items |-> <<>>, subtotal |-> Zero, tax |-> Zero,
                 serviceCharge |-> Zero, total |-> Zero],
                Len(people) = 0)
  /\ UNCHANGED <<payments, taxPercentage, servicePercentage, isInitialized,
                 pendingState, upload, calcVars>>
  /\ Persist
  /\ NoEdit

\* startCamera, with the camera granted.
StartCamera == Goto("UPLOAD", "CAMERA")

\* The X button of the camera screen.
CloseCamera == Goto("CAMERA", "UPLOAD")

\* capturePhoto: the step becomes PROCESSING and processReceipt starts.
CapturePhoto ==
  /\ step = "CAMERA"
  /\ upload.phase = "idle"
  /\ Len(bills) < MaxBills
  /\ step' = "PROCESSING"
  /\ upload' = [phase |-> "extracting", peopleEmpty |-> Len(people) = 0]
  /\ UNCHANGED <<bills, currentBillId, people, payments, taxPercentage,
                 servicePercentage, isInitialized, pendingState, calcVars>>
  /\ Persist
  /\ NoEdit

\* handleFileUpload up to "await fileToBase64(file)": the screen stays live.
HandleFileUpload ==
  /\ step = "UPLOAD"
  /\ upload.phase = "idle"
  /\ Len(bills) < MaxBills
  /\ upload' = [phase |-> "reading", peopleEmpty |-> Len(people) = 0]
  /\ UNCHANGED <<step, bills, currentBillId, people, payments, taxPercentage,
                 servicePercentage, isInitialized, pendingState, store,
                 calcVars>>
  /\ NoEdit

\* handleFileUpload after the file was read: setStep('PROCESSING') and the
\* call of processReceipt, which runs up to its await of the extraction.
FileRead ==
  /\ upload.phase = "reading"
  /\ step' = "PROCESSING"
  /\ upload' = [upload EXCEPT !.phase = "extracting"]
  /\ UNCHANGED <<bills, currentBillId, people, payments, taxPercentage,
                 servicePercentage, isInitialized, pendingState, calcVars>>
  /\ Persist
  /\ NoEdit

\* handleFileUpload's catch: the file could not be read.
FileReadFailed ==
  /\ upload.phase = "reading"
  /\ step' = "UPLOAD"
  /\ upload' = Idle
  /\ UNCHANGED <<bills, currentBillId, people, payments, taxPercentage,
                 servicePercentage, isInitialized, pendingState, calcVars>>
  /\ Persist
  /\ NoEdit

\* x.toFixed(2) read back by parseFloat: x rounded to hundredths.
ToFixed2(x) ==
  LET twice == (2 * 100 * IAbs(x.n)) \div x.d
      h == (twice + 1) \div 2
  IN  Rat(IF x.n < 0 THEN -h ELSE h, 100)

\* processReceipt after the extraction answered with receipt r.
ExtractionDone ==
  /\ upload.phase = "extracting"
  /\ \E r \in ReceiptSet :
       /\ taxPercentage' =
            IF RLt(Zero, r.subtotal)
              THEN ToFixed2(RMul(RDiv(r.tax, r.subtotal), R(100)))
              ELSE Zero
       /\ servicePercentage' =
            IF RLt(Zero, r.subtotal)
              THEN ToFixed2(RMul(RDiv(r.serviceCharge, r.subtotal), R(100)))
              ELSE Zero
       /\ AppendBill(
            [items |-> [i \in 1..Len(r.items) |->
                          [price |-> r.items[i].price,
                           qty |-> IF r.items[i].qty = 0 THEN 1
                                   ELSE r.items[i].qty,
                           sharedBy |-> <<>>]],
             subtotal |-> r.subtotal, tax |-> r.tax,
             serviceCharge |-> r.serviceCharge, total |-> r.total],
            upload.peopleEmpty)
  /\ upload' = Idle
  /\ UNCHANGED <<payments, isInitialized, pendingState, calcVars>>
  /\ Persist
  /\ NoEdit

\* processReceipt's catch: no key, no answer, or an answer that does not parse.
ExtractionFailed ==
  /\ upload.phase = "extracting"
  /\ step' = "UPLOAD"
  /\ upload' = Idle
  /\ UNCHANGED <<bills, currentBillId, people, payments, taxPercentage,
                 servicePercentage, isInitialized, pendingState, calcVars>>
  /\ Persist
  /\ NoEdit

\* The back and forward buttons of the screens.
BillNameBack == Goto("BILL_NAME", "UPLOAD")
BillNameNext == HasCurrent /\ Goto("BILL_NAME", "ADD_PEOPLE")
AddPeopleBack == Goto("ADD_PEOPLE", "BILL_NAME")
AddPeopleNext == Len(people) > 0 /\ Goto("ADD_PEOPLE", "ASSIGN_ITEMS")
AssignItemsBack == HasCurrent /\ Goto("ASSIGN_ITEMS", "ADD_PEOPLE")
AssignItemsNext == HasCurrent /\ Goto("ASSIGN_ITEMS", "TAX_SERVICE")
TaxServiceBack == HasCurrent /\ Goto("TAX_SERVICE", "ASSIGN_ITEMS")
PaymentsBack == Len(bills) > 0 /\ Goto("PAYMENTS", "TAX_SERVICE")
PaymentsNext == Len(bills) > 0 /\ Goto("PAYMENTS", "SUMMARY")
SummaryBack == Goto("SUMMARY", "PAYMENTS")
AddAnotherBill == Goto("SUMMARY", "UPLOAD")

\* addPerson: the form of the people screen, with a non-blank name.
addPerson ==
  /\ step = "ADD_PEOPLE"
  /\ Len(people) < MaxPeople
  /\ \E nm \in Names :
       people' = Append(people, [id |-> generateId, name |-> nm])
  /\ UNCHANGED <<step, bills, currentBillId, payments, taxPercentage,
                 servicePercentage, isInitialized, pendingState, upload,
                 calcVars>>
  /\ Persist
  /\ Edit

Without(seq, x) == LET Keep(y) == y # x IN SelectSeq(seq, Keep)

removePerson ==
  /\ step = "ADD_PEOPLE"
  /\ \E id \in Ids(people) :
       /\ people' = LET Keep(p) == p.id # id IN SelectSeq(people, Keep)
       /\ bills' = [b \in 1..Len(bills) |->
                      [bills[b] EXCEPT !.items =
                         [i \in 1..Len(bills[b].items) |->
                            [bills[b].items[i] EXCEPT !.sharedBy =
                               Without(@, id)]]]]
  /\ UNCHANGED <<step, currentBillId, payments, taxPercentage,
                 servicePercentage, isInitialized, pendingState, upload,
                 calcVars>>
  /\ Persist
  /\ Edit

\* The handlers of the items screen change the current bill only.
OnItems == step = "ASSIGN_ITEMS" /\ HasCurrent

EditBills(newBills) ==
  /\ bills' = newBills
  /\ UNCHANGED <<step, currentBillId, people, payments, taxPercentage,
                 servicePercentage, isInitialized, pendingState, upload,
                 calcVars>>
  /\ Persist
  /\ Edit

toggleItemShare ==
  /\ OnItems
  /\ \E i \in 1..Len(bills[currentBillId].items), personId \in Ids(people) :
       LET Toggle(item) ==
             [item EXCEPT !.sharedBy =
                IF \E k \in 1..Len(@) : @[k] = personId
                  THEN Without(@, personId)
                  ELSE Append(@, personId)]
           Change(b) == MapItem(b, i, Toggle(b.items[i]))
       IN  EditBills(MapCurrent(Change(bills[currentBillId])))

selectAllPeopleForItem ==
  /\ OnItems
  /\ \E i \in 1..Len(bills[currentBillId].items) :
       LET allPersonIds == [k \in 1..Len(people) |-> people[k].id]
           All(item) ==
             [item EXCEPT !.sharedBy =
                IF Len(@) = Len(allPersonIds) THEN <<>> ELSE allPersonIds]
           Change(b) == MapItem(b, i, All(b.items[i]))
       IN  EditBills(MapCurrent(Change(bills[currentBillId])))

\* The quantity input: parseInt(value) || 0.
SetItemQty ==
  /\ OnItems
  /\ \E i \in 1..Len(bills[currentBillId].items), val \in QtySet :
       LET Set(item) == [item EXCEPT !.qty = val]
           Change(b) == MapItem(b, i, Set(b.items[i]))
       IN  EditBills(MapCurrent(Change(bills[currentBillId])))

\* The price input: parseFloat(value) || 0.
SetItemPrice ==
  /\ OnItems
  /\ \E i \in 1..Len(bills[currentBillId].items), val \in PriceSet :
       LET Set(item) == [item EXCEPT !.price = val]
           Change(b) == MapItem(b, i, Set(b.items[i]))
       IN  EditBills(MapCurrent(Change(bills[currentBillId])))

DeleteItem ==
  /\ OnItems
  /\ \E i \in 1..Len(bills[currentBillId].items) :
       LET Change(b) ==
             [b EXCEPT !.items =
                [k \in 1..(Len(@) - 1) |-> IF k < i THEN @[k] ELSE @[k + 1]]]
       IN  EditBills(MapCurrent(Change(bills[currentBillId])))

\* "Tambah Item Manual"
AddItem ==
  /\ OnItems
  /\ Len(bills[currentBillId].items) < MaxItems
  /\ LET Change(b) ==
           [b EXCEPT !.items =
              Append(@, [price |-> Zero, qty |-> 1, sharedBy |-> <<>>])]
     IN  EditBills(MapCurrent(Change(bills[currentBillId])))

\* The two percentage inputs of the tax screen.
SetTaxPercentage ==
  /\ step = "TAX_SERVICE" /\ HasCurrent
  /\ \E pct \in PctSet : taxPercentage' = pct
  /\ UNCHANGED <<step, bills, currentBillId, people, payments,
                 servicePercentage, isInitialized, pendingState, upload,
                 calcVars>>
  /\ Persist
  /\ Edit

SetServicePercentage ==
  /\ step = "TAX_SERVICE" /\ HasCurrent
  /\ \E pct \in PctSet : servicePercentage' = pct
  /\ UNCHANGED <<step, bills, currentBillId, people, payments,
                 taxPercentage, isInitialized, pendingState, upload,
                 calcVars>>
  /\ Persist
  /\ Edit

\* renderTaxService's amounts, and the button that stores them in the bill.
ItemsSubtotal(b) == RSum([i \in 1..Len(b.items) |-> b.items[i].price])
PercentOf(amount, pct) == RDiv(RMul(amount, pct), R(100))

ConfirmTaxService ==
  /\ step = "TAX_SERVICE" /\ HasCurrent
  /\ LET subtotal == ItemsSubtotal(bills[currentBillId])
         taxAmount == PercentOf(subtotal, taxPercentage)
         serviceAmount == PercentOf(subtotal, servicePercentage)
         Store(b) == [b EXCEPT !.subtotal = subtotal, !.tax = taxAmount,
                               !.serviceCharge = serviceAmount,
                               !.total = RAdd(RAdd(subtotal, taxAmount),
                                              serviceAmount)]
     IN  bills' = MapCurrent(Store(bills[currentBillId]))
  /\ step' = "PAYMENTS"
  /\ UNCHANGED <<currentBillId, people, payments, taxPercentage,
                 servicePercentage, isInitialized, pendingState, upload,
                 calcVars>>
  /\ Persist
  /\ NoEdit

OnPayments == step = "PAYMENTS" /\ Len(bills) > 0

EditPayments(newPayments) ==
  /\ payments' = newPayments
  /\ UNCHANGED <<step, bills, currentBillId, people, taxPercentage,
                 servicePercentage, isInitialized, pendingState, upload,
                 calcVars>>
  /\ Persist
  /\ Edit

\* renderPayments: totalBill, totalPaid and remaining.
totalBill == RSum([k \in 1..Len(bills) |-> bills[k].total])
totalPaid == RSum([k \in 1..Len(payments) |-> payments[k].amount])
remaining == RSub(totalBill, totalPaid)

\* A person's button under "Tambah Pembayaran".
AddPayment ==
  /\ OnPayments
  /\ Len(payments) < MaxPayments
  /\ \E k \in 1..Len(people) :
       EditPayments(Append(payments,
         [personId |-> people[k].id,
          amount |-> IF RLt(Zero, remaining) THEN remaining ELSE Zero]))

\* The amount input of a payment: parseFloat(value) || 0.
SetPaymentAmount ==
  /\ OnPayments
  /\ \E k \in 1..Len(payments), val \in AmountSet :
       EditPayments([payments EXCEPT ![k].amount = val])

DeletePayment ==
  /\ OnPayments
  /\ \E k \in 1..Len(payments) :
       EditPayments([j \in 1..(Len(payments) - 1) |->
                       IF j < k THEN payments[j] ELSE payments[j + 1]])

\* renderSummary: the unassigned-items warning and its button.
\* A faulty variant of Unassigned: one for a bill with unassigned items,
\* however many it has.
UnassignedOncePerBill(b) ==
  IF \E i \in 1..Len(b.items) : Len(b.items[i].sharedBy) = 0 THEN {1} ELSE {}
Unassigned(b) == {i \in 1..Len(b.items) : Len(b.items[i].sharedBy) = 0}
RECURSIVE CountUnassigned(_, _)
CountUnassigned(bls, k) ==
  IF k = 0 THEN 0
  ELSE CountUnassigned(bls, k - 1) + Cardinality(Unassigned(bls[k]))
unassignedItemsCount == CountUnassigned(bills, Len(bills))
hasUnassigned == unassignedItemsCount > 0

AssignNow ==
  /\ step = "SUMMARY"
  /\ hasUnassigned
  /\ LET withUnassigned == {k \in 1..Len(bills) : Unassigned(bills[k]) # {}}
     IN  currentBillId' =
           CHOOSE k \in withUnassigned : \A j \in withUnassigned : k <= j
  /\ step' = "ASSIGN_ITEMS"
  /\ UNCHANGED <<bills, people, payments, taxPercentage, servicePercentage,
                 isInitialized, pendingState, upload, calcVars>>
  /\ Persist
  /\ NoEdit

\* What "Mulai Baru" and "Mulai Dari Awal" both set.
ClearSession ==
  /\ bills' = <<>>
  /\ people' = <<>>
  /\ payments' = <<>>
  /\ currentBillId' = 0
  /\ step' = "UPLOAD"
  /\ edits' = 0

\* "Mulai Baru", confirmed.  The item is removed and then written again by
\* the persistence effect, because the state changed.
StartNew ==
  /\ step = "SUMMARY"
  /\ ClearSession
  /\ UNCHANGED <<taxPercentage, servicePercentage, isInitialized,
                 pendingState, upload, calcVars>>
  /\ Persist

\* A faulty variant of ContinueSession: the payments are not restored.
ContinueSessionWithoutPayments ==
  /\ step = "RESTORE"
  /\ pendingState # NoSnapshot
  /\ bills' = pendingState.bills
  /\ people' = pendingState.people
  /\ step' = pendingState.step
  /\ currentBillId' = pendingState.currentBillId
  /\ isInitialized' = TRUE
  /\ pendingState' = NoSnapshot
  /\ UNCHANGED <<payments, taxPercentage, servicePercentage, upload, calcVars>>
  /\ Persist
  /\ NoEdit

\* "Lanjutkan Sesi" on the restore screen.  pendingState is read on this
\* screen only, and no stored snapshot has step RESTORE (nothing is written
\* while isInitialized is false), so the model forgets it on leaving.
ContinueSession ==
  /\ step = "RESTORE"
  /\ IF pendingState # NoSnapshot
       THEN /\ bills' = pendingState.bills
            /\ people' = pendingState.people
            /\ payments' = pendingState.payments
            /\ step' = pendingState.step
            /\ currentBillId' = IF pendingState.currentBillId # 0
                                  THEN pendingState.currentBillId
                                  ELSE currentBillId
       ELSE UNCHANGED <<bills, people, payments, step, currentBillId>>
  /\ isInitialized' = TRUE
  /\ pendingState' = NoSnapshot
  /\ UNCHANGED <<taxPercentage, servicePercentage, upload, calcVars>>
  /\ Persist
  /\ NoEdit

\* "Mulai Dari Awal" on the restore screen.
StartOver ==
  /\ step = "RESTORE"
  /\ ClearSession
  /\ isInitialized' = TRUE
  /\ pendingState' = NoSnapshot
  /\ UNCHANGED <<taxPercentage, servicePercentage, upload, calcVars>>
  /\ Persist

\* The page is loaded again: useState's initial values, then the load effect
\* (lines 118-136) on what the store holds, then the persistence effect.
Reload ==
  /\ bills' = <<>>
  /\ people' = <<>>
  /\ payments' = <<>>
  /\ currentBillId' = 0
  /\ taxPercentage' = Zero
  /\ servicePercentage' = Zero
  /\ upload' = Idle
  /\ IF store # NoSnapshot /\ Len(store.bills) > 0
       THEN /\ pendingState' = store
            /\ step' = "RESTORE"
            /\ isInitialized' = FALSE
       ELSE /\ pendingState' = NoSnapshot
            /\ step' = "UPLOAD"
            /\ isInitialized' = TRUE
  /\ Persist
  /\ edits' = IF store # NoSnapshot /\ Len(store.bills) > 0 THEN edits ELSE 0
  /\ UNCHANGED calcVars

Next ==
  \/ InputManual \/ StartCamera \/ CloseCamera \/ CapturePhoto
  \/ HandleFileUpload \/ FileRead \/ FileReadFailed
  \/ ExtractionDone \/ ExtractionFailed
  \/ BillNameBack \/ BillNameNext \/ AddPeopleBack \/ AddPeopleNext
  \/ AssignItemsBack \/ AssignItemsNext \/ TaxServiceBack
  \/ PaymentsBack \/ PaymentsNext \/ SummaryBack \/ AddAnotherBill
  \/ addPerson \/ removePerson
  \/ toggleItemShare \/ selectAllPeopleForItem
  \/ SetItemQty \/ SetItemPrice \/ DeleteItem \/ AddItem
  \/ SetTaxPercentage \/ SetServicePercentage \/ ConfirmTaxService
  \/ AddPayment \/ SetPaymentAmount \/ DeletePayment
  \/ AssignNow \/ StartNew
  \/ ContinueSession \/ StartOver \/ Reload

Spec == Init /\ [][Next]_vars

----------------------------------------------------------------------------
(* One render of the summary, taken on its own: calculatePersonTotals on    *)
(* the people, bills and payments of the session, then calculateSettlements *)
(* on its result, one loop iteration at a time.                             *)

\* const totals = calculatePersonTotals()
Calculate ==
  /\ pc = "input"
  /\ totals' = calculatePersonTotals(people, bills, payments)
  /\ pc' = "totals"
  /\ UNCHANGED <<sessionVars, settle, first>>

\* calculateSettlements(totals).length === 0 (line 1539): the first call, up
\* to its loop.
StartSettle ==
  /\ pc = "totals"
  /\ settle' = SettleStart(totals)
  /\ pc' = "loop"
  /\ UNCHANGED <<sessionVars, totals, first>>

\* A faulty variant of LoopStep: creditors holds the elements of totals
\* themselves (no {...t} copy), so the decrement reaches totals.
LoopStepOnTotals ==
  /\ pc = "loop"
  /\ SettleRunning(settle)
  /\ settle' = SettleStep(settle)
  /\ totals' =
       [k \in 1..Len(totals) |->
          IF totals[k].id = settle.creditors[settle.c].id
            THEN [totals[k] EXCEPT
                    !.balance = settle'.creditors[settle.c].balance]
            ELSE totals[k]]
  /\ UNCHANGED <<sessionVars, pc, first>>

LoopStep ==
  /\ pc = "loop"
  /\ SettleRunning(settle)
  /\ settle' = SettleStep(settle)
  /\ UNCHANGED <<sessionVars, pc, totals, first>>

\* The loop condition fails: return settlements.
LoopExit ==
  /\ pc = "loop"
  /\ ~SettleRunning(settle)
  /\ pc' = "done"
  /\ UNCHANGED <<sessionVars, totals, settle, first>>

\* calculateSettlements(totals).map(...) (line 1545): the render calls the
\* function again, on the same totals, when the first call returned
\* transfers.
CallAgain ==
  /\ pc = "done"
  /\ first = NotCalled
  /\ Len(settle.settlements) # 0
  /\ first' = [called |-> TRUE, settlements |-> settle.settlements]
  /\ settle' = SettleStart(totals)
  /\ pc' = "loop"
  /\ UNCHANGED <<sessionVars, totals>>

NextCalc == Calculate \/ StartSettle \/ LoopStep \/ LoopExit \/ CallAgain

\* The session variables the calculations do not read.
AtSummary ==
  /\ step = "SUMMARY"
  /\ currentBillId = Len(bills)
  /\ taxPercentage = Zero
  /\ servicePercentage = Zero
  /\ isInitialized = TRUE
  /\ pendingState = NoSnapshot
  /\ store = Snapshot(bills, people, payments, step, currentBillId)
  /\ upload = Idle
  /\ edits = 0
  /\ pc = "input"
  /\ totals = <<>>
  /\ settle = NoSettle
  /\ first = NotCalled

PersonNames == <<"Saya", "Ani", "Budi", "Citra", "Dewi", "Eka">>
PeopleOf(n) == [k \in 1..n |-> [id |-> k, name |-> PersonNames[k]]]

\* The list of the members of a set of ids, in ascending order.
SortedSeq(S) ==
  CHOOSE s \in [1..Cardinality(S) -> S] :
    \A i, j \in 1..Cardinality(S) : i < j => s[i] < s[j]

\* An id that left the people list: removePerson keeps the payments of the
\* person, and processReceipt can replace the first person (line 309) after
\* items were assigned to it.
Departed(ppl) == Len(ppl) + 1

MaxCalcPayments == 2

CalcPeople == {PeopleOf(n) : n \in 0..MaxPeople}
AssigneeLists(ppl) ==
  {SortedSeq(T) :
     T \in SUBSET (Ids(ppl) \cup (IF Len(ppl) = 0 THEN {} ELSE {Departed(ppl)}))}
\* The items of a bill; its lines carry the same quantity.
ItemLists(ppl) ==
  UNION {{[k \in 1..n |-> [price |-> f[k].price, qty |-> q,
                           sharedBy |-> f[k].sharedBy]]
            : f \in [1..n -> [price : PriceSet, sharedBy : AssigneeLists(ppl)]],
              q \in QtySet \cup {1}}
           : n \in 0..MaxItems}
\* The amounts of a receipt, of a receipt without a subtotal, of a manual bill.
CalcAmounts ==
  UNION {{[subtotal |-> r.subtotal, tax |-> r.tax,
           serviceCharge |-> r.serviceCharge, total |-> r.total],
          [subtotal |-> Zero, tax |-> r.tax,
           serviceCharge |-> r.serviceCharge, total |-> r.total]}
           : r \in ReceiptSet}
    \cup {[subtotal |-> Zero, tax |-> Zero, serviceCharge |-> Zero,
           total |-> Zero]}
BillOf(items, a) ==
  [items |-> items, subtotal |-> a.subtotal, tax |-> a.tax,
   serviceCharge |-> a.serviceCharge, total |-> a.total]
CalcBills(ppl) == {BillOf(it, a) : it \in ItemLists(ppl), a \in CalcAmounts}
\* An earlier bill of the session: the first line of a receipt, shared by
\* everybody.
EarlierBills(ppl) ==
  {BillOf(<<[price |-> r.items[1].price, qty |-> 1,
             sharedBy |-> [k \in 1..Len(ppl) |-> ppl[k].id]]>>, r)
     : r \in ReceiptSet}
CalcBillLists(ppl) ==
  {<<>>} \cup {<<b>> : b \in CalcBills(ppl)}
         \cup {<<e, b>> : e \in EarlierBills(ppl), b \in CalcBills(ppl)}
CalcPayments(ppl) ==
  UNION {[1..n -> [personId : Ids(ppl) \cup {Departed(ppl)},
                   amount : AmountSet]]
           : n \in 0..MaxCalcPayments}

InitCalc ==
  /\ people \in CalcPeople
  /\ bills \in CalcBillLists(people)
  /\ payments \in CalcPayments(people)
  /\ AtSummary

SpecCalc == InitCalc /\ [][NextCalc]_vars

----------------------------------------------------------------------------
(* The same render on sessions made for the settlement: up to               *)
(* MaxSettlePeople people, each of whom owes one item of a bill without tax *)
(* or has made one payment.                                                 *)

MaxSettlePeople == 4

\* What a person owes and what the person paid.
OwesPaid ==
  {<<R(20), Zero>>, <<R(30), Zero>>, <<R(50), Zero>>, <<Zero, R(20)>>,
   <<Zero, R(30)>>, <<Zero, R(50)>>, <<Zero, Zero>>}

\* Amounts that differ by less than 0.01 without being equal (20 against
\* 20.0075), a debt of 0.015, and a debt and a payment of exactly 0.01; a
\* session of MaxResiduePeople people takes all its amounts from these.
MaxResiduePeople == 5
ResidueOwesPaid ==
  {<<R(20), Zero>>, <<Zero, Rat(8003, 400)>>, <<Rat(3, 200), Zero>>,
   <<Cent, Zero>>, <<Zero, Cent>>}

SettleCases ==
  UNION {[1..n -> OwesPaid] : n \in 0..MaxSettlePeople}
    \cup [1..MaxResiduePeople -> ResidueOwesPaid]

Positions(n) == [k \in 1..n |-> k]

SettleBill(case) ==
  LET Owes(k) == case[k][1] # Zero
      owing == SelectSeq(Positions(Len(case)), Owes)
      sum == RSum([k \in 1..Len(case) |-> case[k][1]])
  IN  [items |-> [j \in 1..Len(owing) |->
                    [price |-> case[owing[j]][1], qty |-> 1,
                     sharedBy |-> <<owing[j]>>]],
       subtotal |-> sum, tax |-> Zero, serviceCharge |-> Zero, total |-> sum]

SettlePayments(case) ==
  LET Paid(k) == case[k][2] # Zero
      paying == SelectSeq(Positions(Len(case)), Paid)
  IN  [j \in 1..Len(paying) |->
         [personId |-> paying[j], amount |-> case[paying[j]][2]]]

InitSettle ==
  /\ \E case \in SettleCases :
       /\ people = PeopleOf(Len(case))
       /\ bills = <<SettleBill(case)>>
       /\ payments = SettlePayments(case)
  /\ AtSummary

SpecSettle == InitSettle /\ [][NextCalc]_vars

\* The same on sessions of up to MaxFairPeople people, with a loop that
\* keeps running: calculateSettlements is synchronous, so an iteration that
\* can run does run, and so does the return.
MaxFairPeople == 3

InitSettleFair ==
  /\ \E case \in UNION {[1..n -> OwesPaid \cup ResidueOwesPaid]
                          : n \in 0..MaxFairPeople} :
       /\ people = PeopleOf(Len(case))
       /\ bills = <<SettleBill(case)>>
       /\ payments = SettlePayments(case)
  /\ AtSummary

SpecSettleFair ==
  InitSettleFair /\ [][NextCalc]_vars /\ WF_vars(LoopStep) /\ WF_vars(LoopExit)

----------------------------------------------------------------------------
(* Properties of calculatePersonTotals *)

\* calculatePersonTotals has just returned in this render.
Calculated == pc = "totals"

Listed(sharedBy, p) == \E k \in 1..Len(sharedBy) : sharedBy[k] = p
AllBills == {bills[b] : b \in 1..Len(bills)}
AllItems(bill) == {bill.items[i] : i \in 1..Len(bill.items)}

\* price / |sharedBy| for an item the person shares, nothing otherwise.
EqualSplit(item, p) ==
  IF Listed(item.sharedBy, p)
    THEN RDiv(item.price, R(Len(item.sharedBy)))
    ELSE Zero
ItemContribution(bill, p) ==
  RSum([i \in 1..Len(bill.items) |-> EqualSplit(bill.items[i], p)])

\* The sum of the prices of the items with at least one assignee.
AssignedPrices(bill) ==
  RSum([i \in 1..Len(bill.items) |->
          IF Len(bill.items[i].sharedBy) > 0 THEN bill.items[i].price
          ELSE Zero])

\* The ids of the people list, in its order.
PersonIds == [k \in 1..Len(people) |-> people[k].id]

\* C1: for every bill and every person of the people list, the person's
\* item contribution from the bill is the sum of price / |sharedBy| over the
\* bill's items the person shares; the itemTotal returned is the sum of
\* these contributions over the bills.
C1_EqualSplitPerItem ==
  /\ \A bill \in AllBills : \A p \in Ids(people) :
       billPersonItemTotals(people, bill)[p] = ItemContribution(bill, p)
  /\ Calculated =>
       \A k \in 1..Len(totals) :
         totals[k].itemTotal =
           RSum([b \in 1..Len(bills) |->
                   ItemContribution(bills[b], people[k].id)])

\* An item with a price is shared by two people of the list, and the
\* totals were calculated.
C1_Witness ==
  /\ pc = "totals"
  /\ \E bill \in AllBills : \E item \in AllItems(bill) :
       /\ Len(item.sharedBy) = 2
       /\ \A k \in 1..2 : item.sharedBy[k] \in Ids(people)
       /\ item.price # Zero

\* C2: for every bill, the item contributions of all the people add up to
\* the prices of the bill's items that have an assignee.
C2_ContributionsSumToAssignedPrices ==
  \A bill \in AllBills :
    RSum([k \in 1..Len(people) |->
            billPersonItemTotals(people, bill)[PersonIds[k]]])
      = AssignedPrices(bill)

\* C3: for every bill with a positive assignedSubtotal, the tax shares of
\* all the people add up to bill.tax and their service shares to
\* bill.serviceCharge.
C3_TaxAndServiceFullyDistributed ==
  \A bill \in AllBills :
    RLt(Zero, AssignedPrices(bill)) =>
      LET shares == [k \in 1..Len(people) |->
                       BillShares(people, bill, PersonIds[k])]
      IN  /\ RSum([k \in 1..Len(people) |-> shares[k].taxShare]) = bill.tax
          /\ RSum([k \in 1..Len(people) |-> shares[k].serviceShare])
               = bill.serviceCharge

\* C4: for every bill whose assignedSubtotal is 0, every person's tax share
\* and service share from the bill is zero.
C4_NoSharesWithoutAssignedSubtotal ==
  \A bill \in AllBills :
    AssignedPrices(bill) = Zero =>
      \A p \in Ids(people) :
        /\ BillShares(people, bill, p).taxShare = Zero
        /\ BillShares(people, bill, p).serviceShare = Zero

\* The sum over the people list of the item contributions from a bill.
ListedContribution(bill) ==
  RSum([k \in 1..Len(people) |-> ItemContribution(bill, PersonIds[k])])

AllAssigneesListed(bill) ==
  \A item \in AllItems(bill) :
    \A k \in 1..Len(item.sharedBy) : item.sharedBy[k] \in Ids(people)

\* The denominator of the proportion of a bill.
ProportionBase(bill) ==
  IF RLt(Zero, AssignedPrices(bill)) THEN AssignedPrices(bill)
  ELSE IF bill.subtotal = Zero THEN R(1) ELSE bill.subtotal

\* What a bill charges to the people list.
BillCharge(bill) ==
  IF RLt(Zero, AssignedPrices(bill)) /\ AllAssigneesListed(bill)
    THEN RAdd(AssignedPrices(bill), RAdd(bill.tax, bill.serviceCharge))
  ELSE IF ListedContribution(bill) = Zero
    THEN Zero
  ELSE RAdd(ListedContribution(bill),
            RDiv(RMul(RAdd(bill.tax, bill.serviceCharge),
                      ListedContribution(bill)),
                 ProportionBase(bill)))

SumOfFinalTotals == RSum([k \in 1..Len(totals) |-> totals[k].finalTotal])

\* C5 as stated: the finalTotal of all the people add up to the sum over the
\* bills of assigned item prices + bill.tax + bill.serviceCharge.
C5_FinalTotalsSumToAssignedPlusTaxService ==
  Calculated =>
    SumOfFinalTotals =
      RSum([b \in 1..Len(bills) |->
              RAdd(AssignedPrices(bills[b]),
                   RAdd(bills[b].tax, bills[b].serviceCharge))])

\* C5, amended: the finalTotal of all the people add up to the sum over the
\* bills of what the bill charges to the people list, which is assigned
\* item prices + tax + serviceCharge for a bill with a positive
\* assignedSubtotal whose assignees are all listed, nothing for a bill that
\* gives no listed person an item contribution, and T + (tax +
\* serviceCharge) * T / base otherwise, T being the listed people's item
\* contributions.
C5_FinalTotalsSumToBillCharges ==
  Calculated =>
    SumOfFinalTotals = RSum([b \in 1..Len(bills) |-> BillCharge(bills[b])])

\* Two bills with tax were calculated: one charges its assigned prices,
\* tax and service, the other has no assigned item and charges nothing.
C5_Witness ==
  /\ pc = "totals"
  /\ Len(bills) = 2
  /\ SumOfFinalTotals # Zero
  /\ \E bill \in AllBills :
       /\ RLt(Zero, AssignedPrices(bill)) /\ AllAssigneesListed(bill)
       /\ bill.tax # Zero
  /\ \E bill \in AllBills :
       /\ \A item \in AllItems(bill) : Len(item.sharedBy) = 0
       /\ bill.items # <<>>
       /\ bill.tax # Zero

PaymentsOf(id) ==
  LET Mine(pay) == pay.personId = id
      mine == SelectSeq(payments, Mine)
  IN  [k \in 1..Len(mine) |-> mine[k].amount]

\* C6: for every person of the result, itemTotal, taxShare and serviceShare
\* are each the sum over the bills of the person's share, finalTotal is
\* their sum, amountPaid is the sum of the person's payments of the
\* session, and balance is amountPaid - finalTotal.
C6_TotalsPaidAndBalance ==
  Calculated =>
    \A k \in 1..Len(totals) :
      LET t == totals[k]
          Shares(b) == BillShares(people, bills[b], people[k].id)
      IN  /\ t.itemTotal = RSum([b \in 1..Len(bills) |-> Shares(b).itemTotal])
          /\ t.taxShare = RSum([b \in 1..Len(bills) |-> Shares(b).taxShare])
          /\ t.serviceShare =
               RSum([b \in 1..Len(bills) |-> Shares(b).serviceShare])
          /\ t.finalTotal =
               RAdd(RAdd(t.itemTotal, t.taxShare), t.serviceShare)
          /\ t.amountPaid = RSum(PaymentsOf(people[k].id))
          /\ t.balance = RSub(t.amountPaid, t.finalTotal)

\* Two bills: a person with tax and service shares made both payments and
\* is owed money, and another person owes money.
C6_Witness ==
  /\ pc = "totals"
  /\ Len(bills) = 2
  /\ \E k, j \in 1..Len(totals) :
       /\ Len(PaymentsOf(people[k].id)) = 2
       /\ totals[k].taxShare # Zero /\ totals[k].serviceShare # Zero
       /\ RLt(Zero, totals[k].balance)
       /\ RLt(totals[j].balance, Zero)

IsNumber(x) == x.d > 0

InNoAssignment(id) ==
  \A bill \in AllBills : \A item \in AllItems(bill) :
    ~Listed(item.sharedBy, id)

\* C7: calculatePersonTotals returns one entry per person of the people
\* list, in the order of the list, every amount of it a number, and a person
\* in no item's sharedBy has itemTotal, taxShare, serviceShare and
\* finalTotal zero.
C7_OneEntryPerPersonInOrder ==
  Calculated =>
    /\ Len(totals) = Len(people)
    /\ \A k \in 1..Len(totals) :
         LET t == totals[k]
         IN  /\ t.id = people[k].id /\ t.name = people[k].name
             /\ IsNumber(t.itemTotal) /\ IsNumber(t.taxShare)
             /\ IsNumber(t.serviceShare) /\ IsNumber(t.finalTotal)
             /\ IsNumber(t.amountPaid) /\ IsNumber(t.balance)
             /\ InNoAssignment(t.id) =>
                  /\ t.itemTotal = Zero /\ t.taxShare = Zero
                  /\ t.serviceShare = Zero /\ t.finalTotal = Zero

\* Two people were calculated: the second is in no assignment and has zero
\* totals, the first has a final total; one bill has no assigned subtotal
\* and no stored subtotal.
C7_Witness ==
  /\ pc = "totals"
  /\ Len(totals) = 2
  /\ InNoAssignment(people[2].id) /\ totals[2].finalTotal = Zero
  /\ totals[1].finalTotal # Zero
  /\ \E bill \in AllBills :
       AssignedPrices(bill) = Zero /\ bill.subtotal = Zero

\* The bills with price v on every item nobody shares.
WithUnassignedPrice(v) ==
  [b \in 1..Len(bills) |->
     [bills[b] EXCEPT !.items =
        [i \in 1..Len(@) |->
           IF Len(@[i].sharedBy) = 0 THEN [@[i] EXCEPT !.price = v]
           ELSE @[i]]]]

\* C8: an item with empty sharedBy is left out of the assigned subtotal, and
\* the result of calculatePersonTotals is the same whatever the prices of
\* the unassigned items are.
C8_UnassignedPriceIsIgnored ==
  /\ \A bill \in AllBills :
       billAssignedSubtotal(people, bill) = AssignedPrices(bill)
  /\ pc = "totals" =>
       \A v \in {Zero, R(7)} :
         calculatePersonTotals(people, WithUnassignedPrice(v), payments)
           = totals

\* A bill with tax has a priced item nobody shares next to an item shared
\* by a listed person who gets a tax share.
C8_Witness ==
  /\ pc = "totals"
  /\ \E bill \in AllBills :
       /\ bill.tax # Zero
       /\ \E item \in AllItems(bill) :
            Len(item.sharedBy) = 0 /\ item.price # Zero
       /\ \E item \in AllItems(bill) : \E p \in Ids(people) :
            /\ Listed(item.sharedBy, p)
            /\ BillShares(people, bill, p).taxShare # Zero

\* The bills with quantity q on every item.
WithQuantity(q) ==
  [b \in 1..Len(bills) |->
     [bills[b] EXCEPT !.items =
        [i \in 1..Len(@) |-> [@[i] EXCEPT !.qty = q]]]]

\* C9: the results of calculatePersonTotals and of calculateSettlements are
\* the same whatever the quantities of the items are.
C9_QuantityIsDisplayOnly ==
  /\ pc = "totals" =>
       \A q \in {0, 3} :
         calculatePersonTotals(people, WithQuantity(q), payments) = totals
  /\ pc = "done" =>
       calculateSettlements(
         calculatePersonTotals(people, WithQuantity(0), payments))
         = settle.settlements

\* A session with a settlement whose bills have an item of quantity 2
\* shared by a listed person.
C9_Witness ==
  /\ pc = "done"
  /\ Len(settle.settlements) > 0
  /\ \E bill \in AllBills : \E item \in AllItems(bill) :
       /\ item.qty = 2 /\ item.price # Zero
       /\ \E p \in Ids(people) : Listed(item.sharedBy, p)

----------------------------------------------------------------------------
(* Properties of calculateSettlements *)

\* The people outside the 0.01 band around zero, by position in totals.
Participants ==
  {k \in 1..Len(totals) : RLt(Cent, RAbs(totals[k].balance))}
Debtors == {k \in Participants : RLt(totals[k].balance, Zero)}
Creditors == Participants \ Debtors

RECURSIVE BalanceSum(_)
BalanceSum(S) ==
  IF S = {} THEN Zero
  ELSE LET k == CHOOSE x \in S : TRUE
       IN  RAdd(totals[k].balance, BalanceSum(S \ {k}))

\* The total debtor magnitude equals the total creditor magnitude.
Balanced == BalanceSum(Participants) = Zero

\* A transfer list: who pays whom how much.  In a list of the least length
\* that clears the balances every amount is the sum of the balances of
\* some of the people.
TransferAmounts ==
  {RAbs(BalanceSum(T)) : T \in SUBSET Participants} \ {Zero}
Transfers ==
  {t \in [from : 1..Len(totals), to : 1..Len(totals),
          amount : TransferAmounts] : t.from # t.to}

BalanceAfter(list, k) ==
  RAdd(totals[k].balance,
       RSum([i \in 1..Len(list) |->
               IF list[i].from = k THEN list[i].amount
               ELSE IF list[i].to = k THEN RNeg(list[i].amount)
               ELSE Zero]))

\* The list brings every balance to within 0.01 of zero.
Clears(list) ==
  \A k \in 1..Len(totals) : RLe(RAbs(BalanceAfter(list, k)), Cent)

ClearedWithFewerThan(n) ==
  \E k \in 0..(n - 1) : \E list \in [1..k -> Transfers] : Clears(list)

\* The settlements returned, with positions for the names.
Returned ==
  LET IndexOf(name) == CHOOSE k \in 1..Len(totals) : totals[k].name = name
  IN  [i \in 1..Len(settle.settlements) |->
         [from |-> IndexOf(settle.settlements[i].from),
          to |-> IndexOf(settle.settlements[i].to),
          amount |-> settle.settlements[i].amount]]

\* C10 as stated: for balanced totals the list returned clears the balances
\* and no list with fewer transfers does.
C10_FewestTransfers ==
  pc = "done" /\ Balanced =>
    /\ Clears(Returned)
    /\ ~ClearedWithFewerThan(Len(Returned))

\* C10, amended: for balanced totals the list returned has at most
\* D + C - 1 transfers, D debtors and C creditors; when there is at most one
\* debtor or at most one creditor it clears the balances and no list with
\* fewer transfers does.
C10_FewestTransfersForOneDebtorOrCreditor ==
  pc = "done" /\ Balanced =>
    /\ Participants # {} => Len(Returned) <= Cardinality(Participants) - 1
    /\ Cardinality(Debtors) <= 1 \/ Cardinality(Creditors) <= 1 =>
         /\ Clears(Returned)
         /\ ~ClearedWithFewerThan(Len(Returned))

\* Balanced totals with one debtor and two creditors, next to a person with
\* a balance inside the band, were settled in two transfers.
C10_Witness ==
  /\ pc = "done" /\ Balanced
  /\ Cardinality(Debtors) = 1 /\ Cardinality(Creditors) = 2
  /\ Len(totals) = 4
  /\ Len(settle.settlements) = 2

\* C11: whenever the total debtor magnitude equals the total creditor
\* magnitude, applying all transfers returned by calculateSettlements leaves
\* every person's balance within 0.01 of zero.
C11_TransfersClearBalances ==
  pc = "done" /\ Balanced => Clears(Returned)

\* What the transfers returned so far take from the person at position k
\* of totals and give to that person.
PaidBy(k) ==
  RSum([i \in 1..Len(settle.settlements) |->
          IF settle.settlements[i].from = totals[k].name
            THEN settle.settlements[i].amount ELSE Zero])
ReceivedBy(k) ==
  RSum([i \in 1..Len(settle.settlements) |->
          IF settle.settlements[i].to = totals[k].name
            THEN settle.settlements[i].amount ELSE Zero])

\* C12: for any input, the transfers paid by one debtor never add up to more
\* than the debtor's original debt, and the transfers received by one
\* creditor never add up to more than the creditor's original balance.
C12_NobodyPaysOrReceivesTooMuch ==
  pc \in {"loop", "done"} =>
    /\ \A k \in Debtors : RLe(PaidBy(k), RAbs(totals[k].balance))
    /\ \A k \in Creditors : RLe(ReceivedBy(k), totals[k].balance)

\* A debtor has paid two creditors in full and still owes more than 0.01.
C12_Witness ==
  /\ pc = "done"
  /\ \E k \in Debtors :
       /\ Cardinality({i \in 1..Len(settle.settlements) :
                         settle.settlements[i].from = totals[k].name}) = 2
       /\ RLt(RAdd(PaidBy(k), Cent), RAbs(totals[k].balance))

\* C13: when the total debtor magnitude equals the total creditor magnitude,
\* the loop of calculateSettlements ends with both cursors past the end of
\* their lists: no debtor and no creditor is left unvisited.
C13_BothListsExhausted ==
  pc = "done" /\ Balanced =>
    /\ settle.d = Len(settle.debtors) + 1
    /\ settle.c = Len(settle.creditors) + 1

----------------------------------------------------------------------------
(* Properties of a render of the summary *)

\* C14: calculatePersonTotals and then calculateSettlements, run twice on
\* the same unchanged people, bills and payments, yield identical totals and
\* identical transfer lists: the second call of the render returns what the
\* first returned, and the totals are what calculatePersonTotals yields on
\* the people, bills and payments as they are after both calls.
C14_SameOutputTwice ==
  pc = "done" /\ first.called =>
    /\ settle.settlements = first.settlements
    /\ totals = calculatePersonTotals(people, bills, payments)

\* The second call has returned, on a session of two bills with a payment.
C14_Witness ==
  /\ pc = "done" /\ first.called
  /\ Len(settle.settlements) > 0
  /\ Len(bills) = 2 /\ Len(payments) > 0

\* C15: neither calculatePersonTotals nor calculateSettlements changes its
\* inputs: no step of a render changes people, bills (every item's sharedBy
\* included) or payments, and no step after calculatePersonTotals returned
\* changes the totals, the balance of every entry included.
C15_InputsNotMutated ==
  [][pc # "session" =>
       /\ people' = people /\ bills' = bills /\ payments' = payments
       /\ pc # "input" => totals' = totals]_vars

\* Both calls have returned, and the solver's copy of a creditor holds a
\* remaining balance that is not the balance of the creditor's entry in
\* totals.
C15_Witness ==
  /\ pc = "done" /\ first.called
  /\ \E i \in 1..Len(settle.creditors) : \E k \in 1..Len(totals) :
       /\ totals[k].id = settle.creditors[i].id
       /\ totals[k].balance # settle.creditors[i].balance
  /\ \E b \in AllBills : \E item \in AllItems(b) : Len(item.sharedBy) > 0

\* The items of the session nobody is assigned to: (bill, item) positions.
ItemsSharedByNobody ==
  {ki \in UNION {{<<k, i>> : i \in 1..Len(bills[k].items)}
                   : k \in 1..Len(bills)} :
     bills[ki[1]].items[ki[2]].sharedBy = <<>>}

\* C16: the unassigned-item count shown at SUMMARY is the number of items,
\* across all bills, whose sharedBy is empty, and the warning (with its
\* button) is displayed exactly when that count is greater than zero.
C16_UnassignedCountAndWarning ==
  step = "SUMMARY" =>
    /\ unassignedItemsCount = Cardinality(ItemsSharedByNobody)
    /\ hasUnassigned <=> Cardinality(ItemsSharedByNobody) > 0
    /\ (ENABLED AssignNow) <=> Cardinality(ItemsSharedByNobody) > 0

\* The summary of two bills, one with two unassigned items and one with
\* none.
C16_Witness ==
  /\ step = "SUMMARY"
  /\ Len(bills) = 2
  /\ unassignedItemsCount = 2
  /\ \E k \in 1..Len(bills) :
       /\ Len(bills[k].items) > 0
       /\ \A i \in 1..Len(bills[k].items) : bills[k].items[i].sharedBy # <<>>

----------------------------------------------------------------------------
(* Properties of the session store *)

\* C17 as stated: after every change of bills, people, payments, step or
\* currentBillId the snapshot stored under 'splitbill_state' equals the
\* current values of those fields.
C17_StoreEqualsSession ==
  store = Snapshot(bills, people, payments, step, currentBillId)

\* C17, amended: the snapshot stored equals the current values of those
\* fields whenever isInitialized is true; while it is false (the restore
\* screen) nothing is written, and the store keeps the snapshot found at
\* startup.
C17_StoreEqualsSessionOnceInitialized ==
  /\ isInitialized =>
       store = Snapshot(bills, people, payments, step, currentBillId)
  /\ ~isInitialized => step = "RESTORE" /\ store = pendingState

\* "Mulai Baru" has cleared a session whose tax percentage was set, and the
\* store holds the empty session.
C17_Witness ==
  /\ isInitialized
  /\ bills = <<>> /\ taxPercentage # Zero
  /\ store = Snapshot(<<>>, <<>>, <<>>, "UPLOAD", 0)

\* C18: when a snapshot with at least one bill was found at startup and the
\* user continues the session, bills, people, payments, step and
\* currentBillId become the snapshot's values: the session after the restore
\* is the session of the last write.
C18_RestoreRoundTrip ==
  [][ContinueSession =>
       /\ Len(store.bills) > 0
       /\ Snapshot(bills', people', payments', step', currentBillId') = store
       /\ store' = store]_vars

\* A restored session: it is past the restore screen with a payment, and a
\* bill carries the tax of a percentage that only the session before the
\* reload held.
C18_Witness ==
  /\ isInitialized
  /\ step # "RESTORE"
  /\ Len(payments) > 0
  /\ taxPercentage = Zero
  /\ \E k \in 1..Len(bills) : bills[k].tax \notin {Zero, R(6)}

----------------------------------------------------------------------------
(* The sweep of calculateSettlements, told by positions in totals *)

DebtorList ==
  LET In(k) == k \in Debtors IN SelectSeq(Positions(Len(totals)), In)
CreditorList ==
  LET In(k) == k \in Creditors IN SelectSeq(Positions(Len(totals)), In)

\* What the person at place i of a list owes or is owed; zero past the end.
Magnitude(list, i) ==
  IF i <= Len(list) THEN RAbs(totals[list[i]].balance) ELSE Zero

\* The transfers of the sweep over the debtors ds and the creditors cs from
\* debtor i, who still owes dRem, and creditor j, who is still owed cRem.
RECURSIVE Sweep(_, _, _, _, _, _)
Sweep(ds, cs, i, j, dRem, cRem) ==
  IF i > Len(ds) \/ j > Len(cs) THEN <<>>
  ELSE LET amount == IF RLe(dRem, cRem) THEN dRem ELSE cRem
           dLeft == RSub(dRem, amount)
           cLeft == RSub(cRem, amount)
           dDone == RLt(dLeft, Cent)
           cDone == RLt(cLeft, Cent)
       IN  <<[from |-> ds[i], to |-> cs[j], amount |-> amount]>>
             \o Sweep(ds, cs,
                      IF dDone THEN i + 1 ELSE i,
                      IF cDone THEN j + 1 ELSE j,
                      IF dDone THEN Magnitude(ds, i + 1) ELSE dLeft,
                      IF cDone THEN Magnitude(cs, j + 1) ELSE cLeft)

InOrderSweep ==
  LET ds == DebtorList
      cs == CreditorList
  IN  Sweep(ds, cs, 1, 1, Magnitude(ds, 1), Magnitude(cs, 1))

\* C19: calculateSettlements returns exactly what an in-order two-cursor
\* sweep without sorting yields: debtors and creditors in people-list order,
\* every transfer from the current debtor to the current creditor with the
\* smaller of the two remainders as amount, and the transfers in the order
\* the cursors advance, so that along the list neither the debtor's nor the
\* creditor's position in the people list decreases.
C19_InOrderTwoCursorSweep ==
  pc = "done" =>
    LET sweep == InOrderSweep
    IN  /\ settle.settlements =
             [i \in 1..Len(sweep) |->
                [from |-> totals[sweep[i].from].name,
                 to |-> totals[sweep[i].to].name,
                 amount |-> sweep[i].amount]]
        /\ \A i \in 1..(Len(sweep) - 1) :
             /\ sweep[i].from <= sweep[i + 1].from
             /\ sweep[i].to <= sweep[i + 1].to

\* Three transfers between two debtors and two creditors, the first debtor
\* owing less than the second and the first creditor owed less than the
\* second.
C19_Witness ==
  /\ pc = "done"
  /\ Len(settle.settlements) = 3
  /\ Len(DebtorList) = 2 /\ Len(CreditorList) = 2
  /\ RLt(Magnitude(DebtorList, 1), Magnitude(DebtorList, 2))
  /\ RLt(Magnitude(CreditorList, 1), Magnitude(CreditorList, 2))

\* The names of those who pay and of those who receive in the transfers
\* made so far.
Payers == {settle.settlements[i].from : i \in 1..Len(settle.settlements)}
Receivers == {settle.settlements[i].to : i \in 1..Len(settle.settlements)}

\* C20: a person is a debtor of calculateSettlements only if balance < -0.01
\* and a creditor only if balance > 0.01; a person whose balance lies within
\* [-0.01, 0.01] (shown as 'Lunas') appears in no transfer, neither as payer
\* nor as receiver.
C20_OnlyOutsideTheBandTakePart ==
  pc \in {"loop", "done"} =>
    /\ \A i \in 1..Len(settle.debtors) : \E k \in 1..Len(totals) :
         /\ totals[k].id = settle.debtors[i].id
         /\ RLt(totals[k].balance, RNeg(Rat(1, 100)))
         /\ balanceLabel(totals[k]) = "Hutang"
    /\ \A i \in 1..Len(settle.creditors) : \E k \in 1..Len(totals) :
         /\ totals[k].id = settle.creditors[i].id
         /\ RLt(Rat(1, 100), totals[k].balance)
         /\ balanceLabel(totals[k]) = "Piutang"
    /\ \A k \in 1..Len(totals) :
         RLe(RAbs(totals[k].balance), Rat(1, 100)) =>
           /\ balanceLabel(totals[k]) = "Lunas"
           /\ totals[k].name \notin Payers \cup Receivers

\* A transfer was made next to a person who owes exactly 0.01 and a person
\* who is owed exactly 0.01.
C20_Witness ==
  /\ pc = "done"
  /\ Len(settle.settlements) > 0
  /\ \E k \in 1..Len(totals) : totals[k].balance = Rat(1, 100)
  /\ \E k \in 1..Len(totals) : totals[k].balance = Rat(-1, 100)

----------------------------------------------------------------------------
(* Properties of the iterations of the settlement loop *)

\* What the current debtor owes and the current creditor is owed once the
\* iteration that is about to run has made its transfer.
DebtorRestAfter == settle'.debtors[settle.d].balance
CreditorRestAfter == settle'.creditors[settle.c].balance

\* C21: in one iteration of the settlement loop the two cursor decisions are
\* independent: each cursor advances exactly when its own remainder is below
\* 0.01, so when both remainders are below 0.01 both cursors advance in that
\* iteration, and the next transfer, if there is one, is between the next
\* debtor and the next creditor.
C21_CursorsAdvanceIndependently ==
  [][LoopStep =>
       /\ settle'.d = (IF RLt(DebtorRestAfter, Cent)
                         THEN settle.d + 1 ELSE settle.d)
       /\ settle'.c = (IF RLt(CreditorRestAfter, Cent)
                         THEN settle.c + 1 ELSE settle.c)
       /\ Len(settle.settlements) > 0 =>
            LET before == settle.settlements[Len(settle.settlements)]
                now == settle'.settlements[Len(settle'.settlements)]
            IN  /\ now.from = settle.debtors[settle.d].name
                /\ now.to = settle.creditors[settle.c].name
                /\ before.from # now.from /\ before.to # now.to =>
                     /\ settle.d > 1 /\ settle.c > 1
                     /\ before.from = settle.debtors[settle.d - 1].name
                     /\ before.to = settle.creditors[settle.c - 1].name
                     /\ RLt(settle.debtors[settle.d - 1].balance, Cent)
                     /\ RLt(settle.creditors[settle.c - 1].balance, Cent)]_vars

\* Both cursors advanced in one iteration although the creditor's remainder
\* was not zero, and the next transfer was between the next debtor and the
\* next creditor.
C21_Witness ==
  /\ pc \in {"loop", "done"}
  /\ Len(settle.settlements) >= 2
  /\ Len(settle.debtors) >= 2 /\ Len(settle.creditors) >= 2
  /\ settle.settlements[1].from = settle.debtors[1].name
  /\ settle.settlements[1].to = settle.creditors[1].name
  /\ settle.settlements[2].from = settle.debtors[2].name
  /\ settle.settlements[2].to = settle.creditors[2].name
  /\ settle.creditors[1].balance # Zero

\* Two debtors owing 30 and 20 and one creditor owed 50, in this order.
OwedThirtyTwentyFifty ==
  /\ Len(totals) = 3
  /\ totals[1].balance = R(-30)
  /\ totals[2].balance = R(-20)
  /\ totals[3].balance = R(50)

\* C22: the settlement loop always terminates and every iteration advances
\* at least one cursor, so with D debtors and C creditors, both non-empty,
\* there are at most D + C - 1 transfers; two debtors owing 30 and 20 and one
\* creditor owed 50 are settled in at most 2 transfers totalling 50, in
\* people-list order.
C22_LoopTerminatesWithinBound ==
  /\ (pc = "loop") ~> (pc = "done")
  /\ [][LoopStep => settle'.d + settle'.c > settle.d + settle.c]_vars
  /\ [](pc \in {"loop", "done"}
          /\ Len(settle.debtors) > 0 /\ Len(settle.creditors) > 0 =>
            Len(settle.settlements)
              <= Len(settle.debtors) + Len(settle.creditors) - 1)
  /\ [](pc = "done" /\ OwedThirtyTwentyFifty =>
          /\ Len(settle.settlements) <= 2
          /\ RSum([i \in 1..Len(settle.settlements) |->
                     settle.settlements[i].amount]) = R(50)
          /\ \A i \in 1..(Len(Returned) - 1) :
               Returned[i].from <= Returned[i + 1].from)

\* The loop has ended on the two debtors owing 30 and 20 and the creditor
\* owed 50, with two transfers.
C22_Witness ==
  /\ pc = "done"
  /\ OwedThirtyTwentyFifty
  /\ Len(settle.settlements) = 2

----------------------------------------------------------------------------
(* Properties of the proportion of calculatePersonTotals *)

\* C23 as stated: the base of a bill's tax and service split is the bill's
\* assignedSubtotal when that is greater than zero, and the bill's stored
\* subtotal otherwise.
C23_BaseIsAssignedOrStoredSubtotal ==
  Calculated =>
    \A bill \in AllBills :
      baseForProportion(people, bill) =
        (IF RLt(Zero, AssignedPrices(bill)) THEN AssignedPrices(bill)
         ELSE bill.subtotal)

\* C23, amended: the base is the bill's assignedSubtotal when that is
\* greater than zero, otherwise the bill's stored subtotal when that is not
\* zero, otherwise 1; every person's tax and service share from the bill is
\* the bill's tax and service charge times the person's item total of the
\* bill, divided by that base.
C23_BaseIsAssignedOrStoredSubtotalOrOne ==
  Calculated =>
    \A bill \in AllBills :
      LET base == IF RLt(Zero, AssignedPrices(bill))
                    THEN AssignedPrices(bill)
                  ELSE IF bill.subtotal # Zero THEN bill.subtotal
                  ELSE R(1)
      IN  /\ baseForProportion(people, bill) = base
          /\ \A p \in Ids(people) :
               LET shares == BillShares(people, bill, p)
               IN  /\ RMul(shares.taxShare, base) =
                        RMul(bill.tax, shares.itemTotal)
                   /\ RMul(shares.serviceShare, base) =
                        RMul(bill.serviceCharge, shares.itemTotal)

\* A bill with a stored subtotal of 0 whose assigned prices cancel out has
\* charged a person tax on the base 1; another bill has its assigned prices
\* as base.
C23_Witness ==
  /\ Calculated
  /\ \E bill \in AllBills :
       /\ bill.subtotal = Zero /\ AssignedPrices(bill) = Zero
       /\ \E p \in Ids(people) :
            /\ BillShares(people, bill, p).itemTotal # Zero
            /\ BillShares(people, bill, p).taxShare =
                 RMul(bill.tax, BillShares(people, bill, p).itemTotal)
            /\ BillShares(people, bill, p).taxShare # Zero
  /\ \E bill \in AllBills :
       /\ RLt(Zero, AssignedPrices(bill))
       /\ bill.tax # Zero

\* The four numbers calculatePersonTotals derives for a person from a bill
\* or from the session are numbers, not Infinity or NaN.
AllNumbers(shares) ==
  /\ IsNumber(shares.itemTotal) /\ IsNumber(shares.taxShare)
  /\ IsNumber(shares.serviceShare) /\ IsNumber(shares.finalTotal)

\* C24: calculatePersonTotals never divides by zero: for every bill, one
\* with no assigned items and a stored subtotal of 0 included, the divisor
\* of the proportion is not zero, and an item's price is divided only by a
\* sharedBy length greater than zero; no share and no total is Infinity or
\* NaN.
C24_NoDivisionByZero ==
  Calculated =>
    /\ \A bill \in AllBills :
         /\ baseForProportion(people, bill) # Zero
         /\ \A item \in AllItems(bill) :
              /\ Len(item.sharedBy) > 0 => IsNumber(splitPrice(item))
              /\ Len(item.sharedBy) = 0 =>
                   /\ ~IsNumber(splitPrice(item))
                   /\ billPersonItemTotals(people, bill) =
                        billPersonItemTotals(people,
                          [bill EXCEPT !.items = SelectSeq(bill.items,
                             LAMBDA it : it # item)])
         /\ \A p \in Ids(people) : AllNumbers(BillShares(people, bill, p))
    /\ \A k \in 1..Len(totals) :
         /\ AllNumbers(totals[k])
         /\ IsNumber(totals[k].amountPaid) /\ IsNumber(totals[k].balance)

\* The totals of a session with a bill that has a stored subtotal of 0, a
\* tax, an item with a price and nobody assigned to anything.
C24_Witness ==
  /\ Calculated
  /\ Len(people) > 0
  /\ \E bill \in AllBills :
       /\ bill.subtotal = Zero /\ bill.tax # Zero
       /\ Len(bill.items) > 0
       /\ \A item \in AllItems(bill) :
            Len(item.sharedBy) = 0 /\ item.price # Zero

----------------------------------------------------------------------------
(* Properties of the totals handed to calculateSettlements *)

\* calculateSettlements has built its two lists and not yet run its loop.
AtLoopStart == pc = "loop" /\ settle.settlements = <<>>

DebtorMagnitudes ==
  RSum([i \in 1..Len(settle.debtors) |-> settle.debtors[i].balance])
CreditorMagnitudes ==
  RSum([i \in 1..Len(settle.creditors) |-> settle.creditors[i].balance])

\* The balances that make their owner neither a debtor nor a creditor.
BalancesInsideTheBand ==
  RSum([k \in 1..Len(totals) |->
          IF RLe(RAbs(totals[k].balance), Cent) THEN totals[k].balance
          ELSE Zero])

\* What the people of the list have paid, and what the bills charge them.
PaidByListedPeople ==
  RSum([k \in 1..Len(payments) |->
          IF payments[k].personId \in Ids(people) THEN payments[k].amount
          ELSE Zero])
ChargedToListedPeople ==
  RSum([b \in 1..Len(bills) |-> BillCharge(bills[b])])

\* C25 as stated: at the start of calculateSettlements on totals produced by
\* calculatePersonTotals the debtor magnitudes and the creditor magnitudes
\* have the same sum.
C25_DebtorsAndCreditorsBalance ==
  AtLoopStart => DebtorMagnitudes = CreditorMagnitudes

\* C25, amended: at the start of calculateSettlements the creditor
\* magnitudes minus the debtor magnitudes, plus the balances inside the
\* band, are what the listed people have paid minus what the bills charge
\* them; the two sums are equal only when that difference is the sum of the
\* balances inside the band.
C25_MagnitudesDifferByPaidMinusCharged ==
  AtLoopStart =>
    /\ RAdd(RSub(CreditorMagnitudes, DebtorMagnitudes), BalancesInsideTheBand)
         = RSub(PaidByListedPeople, ChargedToListedPeople)
    /\ DebtorMagnitudes = CreditorMagnitudes <=>
         RSub(PaidByListedPeople, ChargedToListedPeople)
           = BalancesInsideTheBand

\* A session with a debtor and a creditor whose magnitudes differ: less was
\* paid than the bills charge.
C25_Witness ==
  /\ AtLoopStart
  /\ Len(settle.debtors) > 0 /\ Len(settle.creditors) > 0
  /\ RLt(CreditorMagnitudes, DebtorMagnitudes)
  /\ RLt(PaidByListedPeople, ChargedToListedPeople)

\* C26: every transfer calculateSettlements has made has an amount of at
\* least 0.01, its payer and its receiver are two different people, and no
\* person is a payer in one transfer and a receiver in another.
C26_TransfersArePositiveAndBetweenTwoPeople ==
  /\ \A i \in 1..Len(settle.settlements) :
       /\ RLe(Cent, settle.settlements[i].amount)
       /\ settle.settlements[i].from # settle.settlements[i].to
  /\ Payers \cap Receivers = {}

\* A returned result of at least two transfers, one of them of less than one
\* unit.
C26_Witness ==
  /\ pc = "done"
  /\ Len(settle.settlements) >= 2
  /\ \E i \in 1..Len(settle.settlements) :
       RLt(settle.settlements[i].amount, R(1))

----------------------------------------------------------------------------
(* Referential integrity of the session *)

\* C27: every item's sharedBy in every bill contains only ids of people
\* currently in the people list, and contains no id twice.
C27_SharedByWithinPeople ==
  \A b \in 1..Len(bills) : \A j \in 1..Len(bills[b].items) :
    LET sharedBy == bills[b].items[j].sharedBy
    IN  /\ \A k \in 1..Len(sharedBy) : sharedBy[k] \in Ids(people)
        /\ \A k, l \in 1..Len(sharedBy) : k # l => sharedBy[k] # sharedBy[l]

\* C28: every payment's personId refers to a person in the people list, so
\* the amounts paid by the people add up to the total paid of the payments
\* screen.
C28_PaymentsBelongToPeople ==
  /\ \A k \in 1..Len(payments) : payments[k].personId \in Ids(people)
  /\ RSum([i \in 1..Len(people) |-> amountPaidOf(payments, people[i].id)])
       = totalPaid

\* C29: while the app waits at the RESTORE step the store holds the saved
\* session found at startup, with at least one bill, and no step that stays
\* at RESTORE writes to it: only "Lanjutkan Sesi" and "Mulai Dari Awal"
\* leave the step, and the store changes no earlier.
C29_StoreUntouchedAtRestore ==
  [][step = "RESTORE" =>
       /\ ~isInitialized
       /\ store # NoSnapshot /\ store = pendingState
       /\ Len(store.bills) > 0
       /\ step' = "RESTORE" => store' = store
       /\ step' # "RESTORE" =>
            \/ Snapshot(bills', people', payments', step', currentBillId')
                 = store
            \/ Snapshot(bills', people', payments', step', currentBillId')
                 = Snapshot(<<>>, <<>>, <<>>, "UPLOAD", 0)]_vars

\* The app waits at RESTORE on a saved session with people and payments
\* that was left past the upload screen.
C29_Witness ==
  /\ step = "RESTORE"
  /\ Len(store.people) > 0 /\ Len(store.payments) > 0
  /\ store.step # "UPLOAD"

----------------------------------------------------------------------------
(* The PROCESSING step *)

\* An extraction call is outstanding: processReceipt waits for its answer.
ExtractionOutstanding == upload.phase = "extracting"

\* C30: whenever the step is PROCESSING an extraction call is outstanding,
\* in every reachable state including a session restored from the store;
\* when the call completes the step becomes BILL_NAME with one bill appended
\* and made current, or UPLOAD with bills, people and payments unchanged.
C30_ProcessingHasAnExtractionOutstanding ==
  [][/\ step = "PROCESSING" => ExtractionOutstanding
     /\ ExtractionOutstanding /\ ~ExtractionOutstanding' /\ step' # "RESTORE"
          => \/ /\ step' = "BILL_NAME"
                /\ Len(bills') = Len(bills) + 1
                /\ SubSeq(bills', 1, Len(bills)) = bills
                /\ currentBillId' = Len(bills')
             \/ /\ step' = "UPLOAD"
                /\ bills' = bills /\ people' = people
                /\ payments' = payments]_vars

====
